---- MODULE Spec2Model ----
(***************************************************************************)
(* Model of src/src/index.ts: register() wraps a Preact component in a     *)
(* custom element.  The file holds two definitions of register(): the      *)
(* class based one (lines 55-240) and the prototype based one (lines       *)
(* 242-493).  The variable impl says which of the two built the element.   *)
(*                                                                         *)
(* One element instance is modelled, together with the host document (its  *)
(* attributes, whether it is connected and where), the rendering engine    *)
(* (the tree last rendered into _root and the calls made) and one possible *)
(* registered ancestor with its Slot component.                            *)
(***************************************************************************)
EXTENDS Integers, Sequences, FiniteSets, TLC

VARIABLES impl, propNames, vdom, props, attrs, conn, place, anc, slot, root,
          last, reg, dom, outer

vars == <<impl, propNames, vdom, props, attrs, conn, place, anc, slot, root,
          last, reg, dom, outer>>

\* the call of register(), the light DOM being projected and the farther
\* registered ancestor: what the steps of the element leave alone
aside == <<reg, dom, outer>>

(***************************************************************************)
(* JavaScript values.  A value is a record [t, v]: t is the typeof tag and *)
(* v the payload, kept as the text String(value) yields.                   *)
(***************************************************************************)
Undefined == [t |-> "undefined", v |-> "undefined"]
Null      == [t |-> "null", v |-> "null"]
Str(s)    == [t |-> "string", v |-> s]
Num(s)    == [t |-> "number", v |-> s]
Bool(s)   == [t |-> "boolean", v |-> s]
Obj(s)    == [t |-> "object", v |-> s]

\* the values host code assigns to a property
Values == {Undefined, Null, Str("x"), Num("1"), Bool("true"), Obj("o1")}

\* the values assigned under an engine that may throw
FailValues == {Num("1"), Obj("o1")}

\* the values assigned while the element moves between ancestors
CtxValues == {Str("x"), Obj("o1")}

\* the strings host code writes with setAttribute
AttrStrings == {"", "y"}

\* the ambient context values an ancestor's render tree can carry
Contexts == {"c1", "c2"}

\* the property name lists register() is called with: a plain name and a
\* hyphenated one, as sequences of characters
NameA  == <<"a">>
NameBA == <<"b", "-", "a">>
Hydrate == <<"h", "y", "d", "r", "a", "t", "e">>
PropNameLists == {{NameA}, {NameBA}}

\* no listener, no captured context
None == "none"

(***************************************************************************)
(* toCamelCase: str.replace(/-(\w)/g, (_, c) => c.toUpperCase())           *)
(***************************************************************************)
WordChars == {"a", "b", "d", "e", "h", "r", "t", "y", "A", "B", "_"}

ToUpperCase(c) ==
  CASE c = "a" -> "A"
    [] c = "b" -> "B"
    [] c = "d" -> "D"
    [] c = "e" -> "E"
    [] c = "h" -> "H"
    [] c = "r" -> "R"
    [] c = "t" -> "T"
    [] c = "y" -> "Y"
    [] OTHER -> c

RECURSIVE CamelFrom(_, _)
CamelFrom(str, i) ==
  IF i > Len(str) THEN <<>>
  ELSE IF str[i] = "-" /\ i < Len(str) /\ str[i + 1] \in WordChars
       THEN <<ToUpperCase(str[i + 1])>> \o CamelFrom(str, i + 2)
       ELSE <<str[i]>> \o CamelFrom(str, i + 1)

toCamelCase(str) == CamelFrom(str, 1)

(***************************************************************************)
(* Objects used as maps: functions from a finite set of keys.              *)
(***************************************************************************)
EmptyMap == [k \in {} |-> Undefined]

\* { ...base, ...over }
Spread(base, over) ==
  [k \in (DOMAIN base) \cup (DOMAIN over) |->
     IF k \in DOMAIN over THEN over[k] ELSE base[k]]

\* obj[k], undefined when the key is missing
Lookup(obj, k) == IF k \in DOMAIN obj THEN obj[k] ELSE Undefined

\* String(v)
String(v) == Str(v.v)

\* v == null || ['string', 'boolean', 'number'].includes(typeof v)
IsPrimitive(v) == v.t \in {"undefined", "null", "string", "boolean", "number"}

(***************************************************************************)
(* Virtual DOM.  A render tree is h(ContextProvider, {...props, context},  *)
(* toVdom(this, Component)): its own props, the context entry of its props *)
(* and the projected light DOM as its children.                            *)
(***************************************************************************)
h(p, context, children) ==
  [present |-> TRUE, props |-> p, context |-> context, children |-> children]

\* _vdom = null
Null_vdom ==
  [present |-> FALSE, props |-> EmptyMap, context |-> "undefined",
   children |-> [props |-> EmptyMap]]

\* a clone that takes the given props in place of the old ones
cloneElement_Replace(vnode, p) == [vnode EXCEPT !.props = p]

\* cloneElement(vnode, props): a copy with the props merged over the old ones
cloneElement(vnode, p) == [vnode EXCEPT !.props = Spread(@, p)]

\* toVdom on the element itself: every attribute but `slot` is copied under
\* its literal and its camelCase name
toVdom(a) ==
  LET names == (DOMAIN a) \ {<<"s", "l", "o", "t">>}
      keys  == names \cup {toCamelCase(n) : n \in names}
  IN [props |->
        [k \in keys |->
           IF k \in names THEN Str(a[k])
           ELSE Str(a[CHOOSE n \in names : toCamelCase(n) = k])]]

\* ContextProvider: cloneElement(children, rest), the props the component gets
ContextProvider(tree) == Spread(tree.children.props, tree.props)

(***************************************************************************)
(* The rendering engine.  render/hydrate put a tree into _root or throw;   *)
(* whether a call throws is an input of the step.                          *)
(***************************************************************************)
render(tree, oldRoot, fails) == IF fails THEN oldRoot ELSE tree

\* the entry point connectedCallback picks
EntryPoint(a) == IF Hydrate \in DOMAIN a THEN "hydrate" ELSE "render"

(***************************************************************************)
(* attributeChangedCallback(name, oldValue, newValue) on an element whose  *)
(* _vdom is vd and whose _root shows rt.  Yields the new _vdom and _root,  *)
(* whether the engine was called and whether the call threw.               *)
(***************************************************************************)
\* a callback that keeps the host's null
NormalizeNull_KeepNull(newValue) == newValue

\* newValue == null ? undefined : newValue
NormalizeNull(newValue) == IF newValue.t \in {"null", "undefined"} THEN Undefined ELSE newValue

\* a callback without the `if (!this._vdom) return` guard
attributeChangedCallback_NoGuard(vd, rt, name, newValue, fails) ==
  LET nv    == NormalizeNull(newValue)
      delta == [k \in {name, toCamelCase(name)} |-> nv]
      nvd   == [cloneElement(vd, delta) EXCEPT !.present = TRUE]
  IN [vdom |-> nvd, root |-> render(nvd, rt, fails),
      called |-> TRUE, threw |-> fails]

attributeChangedCallback(vd, rt, name, newValue, fails) ==
  IF ~vd.present
  THEN [vdom |-> vd, root |-> rt, called |-> FALSE, threw |-> FALSE]
  ELSE LET nv    == NormalizeNull(newValue)
           delta == [k \in {name, toCamelCase(name)} |-> nv]
           nvd   == cloneElement(vd, delta)
       IN [vdom |-> nvd, root |-> render(nvd, rt, fails),
           called |-> TRUE, threw |-> fails]

(***************************************************************************)
(* connectedCallback: ask the ancestors for the context, build the tree    *)
(* from _props and the light DOM, render or hydrate it.                    *)
(***************************************************************************)
\* the value the `_preact` event brings back: the Slot listener on the
\* bubbling path writes the context it captured, else detail stays empty
DispatchPreact(where, sl) ==
  IF where = "inAnc" /\ sl.nodeListener # None THEN sl.nodeListener
  ELSE "undefined"

\* the same event under two mounted ancestors: it reaches the slot node of
\* the near one first; a listener writes the context it captured and stops
\* the propagation, so the far slot node is reached only when the near one
\* carries no listener
DispatchNested(near, far) ==
  IF near.nodeListener # None
  THEN [context |-> near.nodeListener, wrote |-> {"near"}]
  ELSE IF far.nodeListener # None
       THEN [context |-> far.nodeListener, wrote |-> {"far"}]
       ELSE [context |-> "undefined", wrote |-> {}]

connectedCallback(pr, a, rt, context, fails) ==
  LET tree == h(pr, context, toVdom(a))
  IN [vdom |-> tree, root |-> render(tree, rt, fails),
      fn |-> EntryPoint(a), threw |-> fails]

(***************************************************************************)
(* disconnectedCallback: render((this._vdom = null), this._root)           *)
(***************************************************************************)
disconnectedCallback(rt, fails) ==
  [vdom |-> Null_vdom, root |-> render(Null_vdom, rt, fails), threw |-> fails]

(***************************************************************************)
(* Slot: the ref callback of the Slot component.  sl.ref is this.ref,      *)
(* sl.listener the context captured by this._listener (None when unset),   *)
(* sl.nodeListener the listener the DOM node really carries.               *)
(***************************************************************************)
NoSlot == [ref |-> FALSE, listener |-> None, nodeListener |-> None]

SlotRef(sl, r, context) ==
  IF ~r
  THEN [sl EXCEPT !.nodeListener = None]
  ELSE IF sl.listener = None
       THEN [ref |-> TRUE, listener |-> context, nodeListener |-> context]
       ELSE [sl EXCEPT !.ref = TRUE]

(***************************************************************************)
(* The property accessors.                                                 *)
(***************************************************************************)
\* one engine call: the entry point and the callback that made it
Call(fn, by) == [fn |-> fn, by |-> by]

\* get(): first definition falls back to _props, the second reads
\* this._vdom.props[name] and throws a TypeError when _vdom is null
getter(which, vd, pr, name) ==
  IF vd.present THEN [threw |-> FALSE, v |-> Lookup(vd.props, name)]
  ELSE IF which = 1 THEN [threw |-> FALSE, v |-> Lookup(pr, name)]
  ELSE [threw |-> TRUE, v |-> Undefined]

\* a reflection that mirrors every value, structured ones included
Reflect_EveryValue(vd, rt, a, name, v, fails) ==
  LET react == attributeChangedCallback(vd, rt, name, String(v), fails)
  IN [vdom |-> react.vdom, root |-> react.root,
      attrs |-> Spread(a, [k \in {name} |-> String(v).v]),
      called |-> react.called, failed |-> react.threw]

\* the reflection at the end of set(v): setAttribute(name, String(v)),
\* upon which the host calls attributeChangedCallback with the string
Reflect(vd, rt, a, name, v, fails) ==
  IF IsPrimitive(v)
  THEN LET react == attributeChangedCallback(vd, rt, name, String(v), fails)
       IN [vdom |-> react.vdom, root |-> react.root,
           attrs |-> Spread(a, [k \in {name} |-> String(v).v]),
           called |-> react.called, failed |-> react.threw]
  ELSE [vdom |-> vd, root |-> rt, attrs |-> a, called |-> FALSE,
        failed |-> FALSE]

\* set(v) of the first definition
setter1(vd, rt, pr, a, name, v, f1, f2) ==
  IF vd.present
  THEN LET direct == attributeChangedCallback(vd, rt, name, v, f1)
           refl   == Reflect(direct.vdom, direct.root, a, name, v, f2)
       IN IF direct.threw
          THEN [vdom |-> direct.vdom, root |-> direct.root, props |-> pr,
                attrs |-> a, threw |-> TRUE, failed |-> TRUE,
                calls |-> {Call("render", "set")}]
          ELSE [vdom |-> refl.vdom, root |-> refl.root, props |-> pr,
                attrs |-> refl.attrs, threw |-> FALSE, failed |-> refl.failed,
                calls |-> {Call("render", "set")} \cup
                          IF refl.called THEN {Call("render", "attr")} ELSE {}]
  ELSE LET npr  == Spread(pr, [k \in {name} |-> v])
           refl == Reflect(vd, rt, a, name, v, f2)
       IN [vdom |-> refl.vdom, root |-> refl.root, props |-> npr,
           attrs |-> refl.attrs, threw |-> FALSE, failed |-> refl.failed,
           calls |-> IF refl.called THEN {Call("render", "attr")} ELSE {}]

\* set(v) of the second definition: without a tree it stores the value and
\* calls this.connectedCallback() itself
setter2(vd, rt, pr, a, name, v, f1, f2) ==
  IF vd.present
  THEN setter1(vd, rt, pr, a, name, v, f1, f2)
  ELSE LET npr  == Spread(pr, [k \in {name} |-> v])
           cc   == connectedCallback(npr, a, rt, DispatchPreact("detached", NoSlot), f1)
           refl == Reflect(cc.vdom, cc.root, a, name, v, f2)
       IN IF cc.threw
          THEN [vdom |-> cc.vdom, root |-> cc.root, props |-> npr,
                attrs |-> a, threw |-> TRUE, failed |-> TRUE,
                calls |-> {Call(cc.fn, "set")}]
          ELSE [vdom |-> refl.vdom, root |-> refl.root, props |-> npr,
                attrs |-> refl.attrs, threw |-> FALSE, failed |-> refl.failed,
                calls |-> {Call(cc.fn, "set")} \cup
                          IF refl.called THEN {Call("render", "attr")} ELSE {}]

setter(which, vd, rt, pr, a, name, v, f1, f2) ==
  IF which = 1 THEN setter1(vd, rt, pr, a, name, v, f1, f2)
  ELSE setter2(vd, rt, pr, a, name, v, f1, f2)

(***************************************************************************)
(* toVdom(element, nodeName) on a light DOM tree.  A node is a record      *)
(* [nodeType, data, nodeName, attributes, slot, childNodes]; slot is <<>>  *)
(* for a node without a slot name.  The result of h() is a record [type,   *)
(* props, children]; an index of the children array that was never         *)
(* assigned is Hole.                                                       *)
(***************************************************************************)
SlotAttr == <<"s", "l", "o", "t">>

Text(data) ==
  [nodeType |-> 3, data |-> data, nodeName |-> "#text",
   attributes |-> EmptyMap, slot |-> <<>>, childNodes |-> <<>>]

Comment ==
  [nodeType |-> 8, data |-> "", nodeName |-> "#comment",
   attributes |-> EmptyMap, slot |-> <<>>, childNodes |-> <<>>]

\* an element; its slot property reflects its `slot` attribute
Element(nodeName, a, slotName, cn) ==
  [nodeType |-> 1, data |-> "", nodeName |-> nodeName,
   attributes |-> IF slotName = <<>> THEN a
                  ELSE Spread(a, [k \in {SlotAttr} |-> "named"]),
   slot |-> slotName, childNodes |-> cn]

\* isComment: node.nodeType === 3;  isElement: node.nodeType === 1
isComment(node) == node.nodeType = 3
isElement(node) == node.nodeType = 1

Hole == [hole |-> TRUE]
NullVnode == [null |-> TRUE]

\* h(Slot, { name }, vnode) and h(Slot, null, children)
SlotVnode(name, child) ==
  [type |-> "Slot",
   props |-> IF name = <<>> THEN EmptyMap ELSE [k \in {<<"n", "a", "m", "e">>} |-> name],
   children |-> child]

\* the highest index of a set of indices, 0 for none
MaxIndex(S) == IF S = {} THEN 0 ELSE CHOOSE i \in S : \A j \in S : j <= i

RECURSIVE toVdomNode(_, _)
toVdomNode(element, nodeName) ==
  IF isComment(element) THEN [text |-> element.data]
  ELSE IF ~isElement(element) THEN NullVnode
  ELSE
    LET cn       == element.childNodes
        named    == {i \in 1..Len(cn) : cn[i].slot # <<>>}
        unnamed  == (1..Len(cn)) \ named
        slots    == {cn[i].slot : i \in named}
        \* the loop runs from the last child to the first: the first child
        \* of a slot name is the one that stays
        winner(n) == CHOOSE i \in named :
                       /\ cn[i].slot = n
                       /\ \A j \in named : cn[j].slot = n => i <= j
        fromAttrs == toVdom(element.attributes).props
        p        == Spread(fromAttrs,
                           [n \in slots |->
                              SlotVnode(n, toVdomNode(cn[winner(n)], ""))])
        children == [i \in 1..MaxIndex(unnamed) |->
                       IF i \in unnamed THEN toVdomNode(cn[i], "") ELSE Hole]
    IN [type |-> IF nodeName # "" THEN nodeName ELSE element.nodeName,
        props |-> p,
        children |-> IF nodeName # "" THEN SlotVnode(<<>>, children)
                     ELSE children]

\* the child nodes a light DOM is built from, and the attribute maps of the
\* element that is projected
MaxKids == 2

SlotBA == <<"b", "A">>
KidNodes ==
  {Text("t"), Comment,
   Element("p", EmptyMap, <<>>, <<>>),
   Element("q", [k \in {NameBA} |-> "3"], <<>>, <<Text("u")>>),
   Element("p", EmptyMap, NameA, <<>>),
   Element("q", EmptyMap, NameA, <<>>),
   Element("p", EmptyMap, SlotBA, <<>>)}

RECURSIVE KidLists(_)
KidLists(n) ==
  IF n = 0 THEN {<<>>}
  ELSE KidLists(n - 1) \cup
       {Append(l, k) : l \in {m \in KidLists(n - 1) : Len(m) = n - 1}, k \in KidNodes}

HostAttributes ==
  {EmptyMap, [k \in {NameA} |-> "1"], [k \in {NameBA} |-> "2"]}

(***************************************************************************)
(* register(Component, tagName, propNames, options).  An optional argument *)
(* or static field is a record [given, v]; a name list is a sequence.      *)
(***************************************************************************)
Given(x)  == [given |-> TRUE, v |-> x]
NoString  == [given |-> FALSE, v |-> ""]
NoList    == [given |-> FALSE, v |-> <<>>]

\* what customElements.define returns
DefineResult == "undefined"

\* a fallback chain that asks displayName before the declared tagName
TagName_DisplayFirst(in) ==
  IF in.tagName.given THEN in.tagName.v
  ELSE IF in.displayName.given THEN in.displayName.v
  ELSE IF in.componentTagName.given THEN in.componentTagName.v
  ELSE in.name

\* tagName ?? Component.tagName ?? Component.displayName ?? Component.name
TagName(in) ==
  IF in.tagName.given THEN in.tagName.v
  ELSE IF in.componentTagName.given THEN in.componentTagName.v
  ELSE IF in.displayName.given THEN in.displayName.v
  ELSE in.name

\* first definition: observedAttributes is the propNames argument as it is,
\* then customElements.define
register1(in) ==
  [threw |-> FALSE, observed |-> in.propNames, onPrototype |-> <<>>,
   defined |-> <<TagName(in)>>, returned |-> DefineResult]

\* second definition: propNames falls back to Component.observedAttributes,
\* then to the keys of Component.propTypes; the accessors go on the
\* prototype in a for-of over propNames, then customElements.define
register2(in) ==
  LET names == IF in.propNames.given THEN in.propNames
               ELSE IF in.observedAttributes.given THEN in.observedAttributes
               ELSE IF in.propTypes.given THEN in.propTypes
               ELSE NoList
  IN IF names.given
     THEN [threw |-> FALSE, observed |-> names, onPrototype |-> names.v,
           defined |-> <<TagName(in)>>, returned |-> DefineResult]
     ELSE [threw |-> TRUE, observed |-> names, onPrototype |-> <<>>,
           defined |-> <<>>, returned |-> DefineResult]

register(which, in) == IF which = 1 THEN register1(in) ELSE register2(in)

\* the constructor: the first definition defines the accessors on the
\* instance in a for-of over propNames || PreactElement.observedAttributes,
\* the second leaves the ones of the prototype
construct(which, in, r) ==
  IF which = 1
  THEN IF r.observed.given
       THEN [threw |-> FALSE, accessors |-> r.observed.v]
       ELSE [threw |-> TRUE, accessors |-> <<>>]
  ELSE [threw |-> FALSE, accessors |-> r.onPrototype]

\* no call of register() under way
NoReg ==
  [phase |-> "idle",
   in |-> [tagName |-> NoString, componentTagName |-> NoString,
           displayName |-> NoString, name |-> "", propNames |-> NoList,
           observedAttributes |-> NoList, propTypes |-> NoList],
   out |-> [threw |-> FALSE, observed |-> NoList, onPrototype |-> <<>>,
            defined |-> <<>>, returned |-> DefineResult],
   made |-> [threw |-> FALSE, accessors |-> <<>>]]

\* the arguments and static fields register() is called with
TagArgs        == {NoString, Given("x-arg")}
ComponentTags  == {NoString, Given("x-tag")}
DisplayNames   == {NoString, Given("x-display")}
PropNameArgs   == {NoList, Given(<<NameA>>), Given(<<NameBA, NameA>>)}
ObservedLists  == {NoList, Given(<<NameA>>), Given(<<NameA, NameBA>>)}
PropTypeKeys   == {NoList, Given(<<NameBA>>)}

RegInputs ==
  [tagName : TagArgs, componentTagName : ComponentTags,
   displayName : DisplayNames, name : {"Comp"}, propNames : PropNameArgs,
   observedAttributes : ObservedLists, propTypes : PropTypeKeys]

(***************************************************************************)
(* The state machine.                                                      *)
(***************************************************************************)
\* the last operation of the host: what it was, the lifecycle state it began
\* in, what a read returned, whether it threw to its caller, whether an
\* engine call in it failed, the engine calls it made, and, for a disconnect,
\* what the declared properties read when it began
Last(op, v, threw, failed, c) ==
  [op |-> op, st |-> conn, v |-> v, threw |-> threw, failed |-> failed,
   calls |-> c,
   snap |-> [n \in propNames |->
               IF op = "disconnect" THEN getter(1, vdom, props, n).v
               ELSE Undefined]]


\* register() ran with either definition and one of the name lists, the
\* host constructed the element: no tree, no pending props, not connected
ElementInit ==
  /\ impl \in {1, 2}
  /\ vdom = Null_vdom
  /\ props = EmptyMap
  /\ attrs = EmptyMap
  /\ conn = "Unattached"
  /\ place = "detached"
  /\ anc = [mounted |-> FALSE, ambient |-> "undefined"]
  /\ slot = NoSlot
  /\ root = Null_vdom
  /\ last = Last("construct", Undefined, FALSE, FALSE, {})

\* no light DOM under projection; no farther ancestor: outer.slot is its
\* Slot, outer.wrote the listeners that wrote into the last nested event
NoDom == [phase |-> "idle"]
NoOuter ==
  [mounted |-> FALSE, ambient |-> "undefined", slot |-> NoSlot, wrote |-> {}]

Init ==
  /\ propNames \in PropNameLists
  /\ ElementInit
  /\ reg = NoReg
  /\ dom = NoDom
  /\ outer = NoOuter

\* host code: element[name] = v
SetProp(name, v, f1, f2) ==
  LET r == setter(impl, vdom, root, props, attrs, name, v, f1, f2)
  IN /\ vdom' = r.vdom
     /\ root' = r.root
     /\ props' = r.props
     /\ attrs' = r.attrs
     /\ ~r.threw => (f1 = FALSE)
     /\ (r.threw \/ ~IsPrimitive(v) \/ ~r.vdom.present) => (f2 = FALSE)
     /\ last' = Last("set", Undefined, r.threw, r.failed, r.calls)
     /\ UNCHANGED aside
     /\ UNCHANGED <<impl, propNames, conn, place, anc, slot>>

\* host code: reads element[name]
GetProp(name) ==
  LET r == getter(impl, vdom, props, name)
  IN /\ last' = Last("get", r.v, r.threw, FALSE, {})
     /\ UNCHANGED aside
     /\ UNCHANGED <<impl, propNames, vdom, props, attrs, conn, place, anc,
                    slot, root>>

\* host code: setAttribute(name, s) on an observed attribute; the host then
\* calls attributeChangedCallback(name, old, s)
SetAttribute(name, s, fails) ==
  LET r == attributeChangedCallback(vdom, root, name, Str(s), fails)
  IN /\ attrs' = Spread(attrs, [k \in {name} |-> s])
     /\ vdom' = r.vdom
     /\ root' = r.root
     /\ ~r.called => ~fails
     /\ last' = Last("attr", Undefined, FALSE, r.threw,
                     IF r.called THEN {Call("render", "attr")} ELSE {})
     /\ UNCHANGED aside
     /\ UNCHANGED <<impl, propNames, props, conn, place, anc, slot>>

\* host code: removeAttribute(name) on an observed attribute that is set;
\* the host calls attributeChangedCallback(name, old, null)
RemoveAttribute(name, fails) ==
  LET r == attributeChangedCallback(vdom, root, name, Null, fails)
  IN /\ name \in DOMAIN attrs
     /\ attrs' = [k \in (DOMAIN attrs) \ {name} |-> attrs[k]]
     /\ vdom' = r.vdom
     /\ root' = r.root
     /\ ~r.called => ~fails
     /\ last' = Last("attr", Undefined, FALSE, r.threw,
                     IF r.called THEN {Call("render", "attr")} ELSE {})
     /\ UNCHANGED aside
     /\ UNCHANGED <<impl, propNames, props, conn, place, anc, slot>>

\* host code: toggles the `hydrate` marker, which is not observed
ToggleHydrate ==
  /\ attrs' = IF Hydrate \in DOMAIN attrs
              THEN [k \in (DOMAIN attrs) \ {Hydrate} |-> attrs[k]]
              ELSE Spread(attrs, [k \in {Hydrate} |-> ""])
  /\ last' = Last("hydrate", Undefined, FALSE, FALSE, {})
  /\ UNCHANGED aside
  /\ UNCHANGED <<impl, propNames, vdom, props, conn, place, anc, slot, root>>

\* the host inserts the element into the document, at the top or inside the
\* slot of the mounted ancestor, and calls connectedCallback
Connect(where, fails) ==
  LET r == connectedCallback(props, attrs, root, DispatchPreact(where, slot), fails)
  IN /\ conn # "Rendered"
     /\ where = "inAnc" => anc.mounted
     /\ place' = where
     /\ conn' = "Rendered"
     /\ vdom' = r.vdom
     /\ root' = r.root
     /\ last' = Last("connect", Undefined, r.threw, r.threw,
                     {Call(r.fn, "connect")})
     /\ UNCHANGED aside
     /\ UNCHANGED <<impl, propNames, props, attrs, anc, slot>>

\* the host removes the element from the document
Disconnect(fails) ==
  LET r == disconnectedCallback(root, fails)
  IN /\ conn = "Rendered"
     /\ place' = "detached"
     /\ conn' = "TornDown"
     /\ vdom' = r.vdom
     /\ root' = r.root
     /\ last' = Last("disconnect", Undefined, r.threw, r.threw,
                     {Call("render", "disconnect")})
     /\ UNCHANGED aside
     /\ UNCHANGED <<impl, propNames, props, attrs, anc, slot>>

\* a registered ancestor mounts: its Slot renders with the ambient context
\* and the engine hands the slot node to the ref callback
AncMount(context) ==
  /\ ~anc.mounted
  /\ anc' = [mounted |-> TRUE, ambient |-> context]
  /\ slot' = SlotRef(NoSlot, TRUE, context)
  /\ last' = Last("ancMount", Undefined, FALSE, FALSE, {})
  /\ UNCHANGED aside
  /\ UNCHANGED <<impl, propNames, vdom, props, attrs, conn, place, root>>

\* the ancestor's Slot renders again: a new ref closure, so the engine
\* calls the old ref with null and the new one with the node
AncRerender(context) ==
  /\ anc.mounted
  /\ anc' = [anc EXCEPT !.ambient = context]
  /\ slot' = SlotRef(SlotRef(slot, FALSE, anc.ambient), TRUE, context)
  /\ last' = Last("ancRerender", Undefined, FALSE, FALSE, {})
  /\ UNCHANGED aside
  /\ UNCHANGED <<impl, propNames, vdom, props, attrs, conn, place, root>>

\* the ancestor unmounts while the element is not inside it
AncUnmount ==
  /\ anc.mounted
  /\ place # "inAnc"
  /\ anc' = [mounted |-> FALSE, ambient |-> "undefined"]
  /\ slot' = NoSlot
  /\ last' = Last("ancUnmount", Undefined, FALSE, FALSE, {})
  /\ UNCHANGED aside
  /\ UNCHANGED <<impl, propNames, vdom, props, attrs, conn, place, root>>

\* a farther registered ancestor, around the near one, mounts
OuterMount(context) ==
  /\ ~outer.mounted
  /\ outer' = [mounted |-> TRUE, ambient |-> context,
               slot |-> SlotRef(NoSlot, TRUE, context), wrote |-> {}]
  /\ last' = Last("outerMount", Undefined, FALSE, FALSE, {})
  /\ UNCHANGED <<reg, dom>>
  /\ UNCHANGED <<impl, propNames, vdom, props, attrs, conn, place, anc, slot,
                 root>>

\* the farther ancestor's Slot renders again
OuterRerender(context) ==
  /\ outer.mounted
  /\ outer' = [outer EXCEPT
                 !.ambient = context,
                 !.slot = SlotRef(SlotRef(@, FALSE, outer.ambient), TRUE, context)]
  /\ last' = Last("outerRerender", Undefined, FALSE, FALSE, {})
  /\ UNCHANGED <<reg, dom>>
  /\ UNCHANGED <<impl, propNames, vdom, props, attrs, conn, place, anc, slot,
                 root>>

\* the host inserts the element into the slot of the near ancestor, which
\* sits in the slot of the farther one, and calls connectedCallback
ConnectNested(fails) ==
  LET d == DispatchNested(slot, outer.slot)
      r == connectedCallback(props, attrs, root, d.context, fails)
  IN /\ conn # "Rendered"
     /\ anc.mounted
     /\ outer.mounted
     /\ place' = "inAnc"
     /\ conn' = "Rendered"
     /\ vdom' = r.vdom
     /\ root' = r.root
     /\ outer' = [outer EXCEPT !.wrote = d.wrote]
     /\ last' = Last("connect", Undefined, r.threw, r.threw,
                     {Call(r.fn, "connect")})
     /\ UNCHANGED <<reg, dom>>
     /\ UNCHANGED <<impl, propNames, props, attrs, anc, slot>>

\* an element in a document without registered ancestors, a reliable engine
Next ==
  \/ \E n \in propNames, v \in Values : SetProp(n, v, FALSE, FALSE)
  \/ \E n \in propNames : GetProp(n)
  \/ \E n \in propNames, s \in AttrStrings : SetAttribute(n, s, FALSE)
  \/ \E n \in propNames : RemoveAttribute(n, FALSE)
  \/ Connect("top", FALSE)
  \/ Disconnect(FALSE)

Spec == Init /\ [][Next]_vars

\* the same with an engine whose calls may throw
NextFail ==
  \/ \E n \in propNames, v \in FailValues, f1, f2 \in BOOLEAN : SetProp(n, v, f1, f2)
  \/ \E n \in propNames : GetProp(n)
  \/ \E n \in propNames, f \in BOOLEAN : SetAttribute(n, "", f)
  \/ \E n \in propNames, f \in BOOLEAN : RemoveAttribute(n, f)
  \/ \E f \in BOOLEAN : Connect("top", f)
  \/ \E f \in BOOLEAN : Disconnect(f)

SpecFail == Init /\ [][NextFail]_vars

\* an element moved between the top of the document and the slot of a
\* registered ancestor
NextCtx ==
  \/ \E w \in {"top", "inAnc"} : Connect(w, FALSE)
  \/ Disconnect(FALSE)
  \/ \E c \in Contexts : AncMount(c)
  \/ \E c \in Contexts : AncRerender(c)
  \/ AncUnmount
  \/ ToggleHydrate
  \/ \E n \in propNames, v \in CtxValues : SetProp(n, v, FALSE, FALSE)

SpecCtx == Init /\ [][NextCtx]_vars

\* register() is called, then the host constructs an element
InitReg ==
  /\ propNames = {NameA}
  /\ ElementInit
  /\ \E in \in RegInputs : reg = [NoReg EXCEPT !.in = in]
  /\ dom = NoDom
  /\ outer = NoOuter

elem == <<impl, propNames, vdom, props, attrs, conn, place, anc, slot, root,
          last>>

Register ==
  /\ reg.phase = "idle"
  /\ reg' = [reg EXCEPT !.phase = "registered", !.out = register(impl, reg.in)]
  /\ UNCHANGED <<elem, dom, outer>>

Construct ==
  /\ reg.phase = "registered"
  /\ ~reg.out.threw
  /\ reg' = [reg EXCEPT !.phase = "constructed",
                        !.made = construct(impl, reg.in, reg.out)]
  /\ UNCHANGED <<elem, dom, outer>>

NextReg == Register \/ Construct

SpecReg == InitReg /\ [][NextReg]_vars

\* toVdom(this, Component) on one light DOM
InitVdom ==
  /\ propNames = {NameA}
  /\ ElementInit
  /\ reg = NoReg
  /\ \E a \in HostAttributes, cn \in KidLists(MaxKids) :
       dom = [phase |-> "input", node |-> Element("x-el", a, <<>>, cn)]
  /\ outer = NoOuter

Project ==
  /\ dom.phase = "input"
  /\ dom' = [phase |-> "done", node |-> dom.node,
             out |-> toVdomNode(dom.node, "Component")]
  /\ UNCHANGED <<elem, reg, outer>>

NextVdom == Project

SpecVdom == InitVdom /\ [][NextVdom]_vars

\* an element that connects under two nested registered ancestors
NextNest ==
  \/ \E c \in Contexts : AncMount(c)
  \/ \E c \in Contexts : AncRerender(c)
  \/ \E c \in Contexts : OuterMount(c)
  \/ \E c \in Contexts : OuterRerender(c)
  \/ ConnectNested(FALSE)
  \/ Disconnect(FALSE)

SpecNest == Init /\ [][NextNest]_vars

\* an element registered with two names, at the top of the document or in
\* the slot of a mounted ancestor
InitTwo ==
  /\ propNames = {NameA, NameBA}
  /\ ElementInit
  /\ reg = NoReg
  /\ dom = NoDom
  /\ outer = NoOuter

NextTwo ==
  \/ \E n \in propNames, v \in FailValues : SetProp(n, v, FALSE, FALSE)
  \/ \E n \in propNames : SetAttribute(n, "y", FALSE)
  \/ \E n \in propNames : RemoveAttribute(n, FALSE)
  \/ \E w \in {"top", "inAnc"} : Connect(w, FALSE)
  \/ Disconnect(FALSE)
  \/ AncMount("c1")

SpecTwo == InitTwo /\ [][NextTwo]_vars

(***************************************************************************)
(* Properties.                                                             *)
(***************************************************************************)

\* C1: a value assigned to a declared property before the first connect is,
\* after that connect, in the prop map the component receives under the
\* literal name and under the camelCase name.
C1_PendingUnderBothKeys ==
  (last.op = "connect" /\ last.st = "Unattached") =>
    \A n \in DOMAIN props :
      /\ Lookup(ContextProvider(vdom), n) = props[n]
      /\ Lookup(ContextProvider(vdom), toCamelCase(n)) = props[n]

\* C2: a reconnect right after a disconnect hands the component the props a
\* first connect hands it for an element with the same attributes whose
\* properties were assigned what they read before the disconnect (stated
\* for the elements whose declared properties all read a defined value).
C2_ReconnectLikeFirstConnect ==
  [][(/\ last.op = "disconnect"
      /\ last'.op = "connect"
      /\ \A n \in propNames : last.snap[n] # Undefined) =>
       LET fresh == connectedCallback(last.snap, attrs, root, vdom'.context,
                                      FALSE).vdom
           keys  == DOMAIN ContextProvider(fresh) \cup DOMAIN ContextProvider(vdom')
       IN \A k \in keys : Lookup(ContextProvider(vdom'), k) =
                          Lookup(ContextProvider(fresh), k)]_vars

\* C3: the context of a connecting element is the ambient context of the
\* registered ancestor exactly when it connects inside that mounted ancestor,
\* and undefined otherwise.
C3_ContextFromAncestor ==
  last.op = "connect" =>
    vdom.context = IF place = "inAnc" /\ anc.mounted THEN anc.ambient
                   ELSE "undefined"

\* C4: on a Rendered element, assigning null, undefined, a string, a boolean
\* or a number v to a declared property leaves the attribute equal to
\* String(v); assigning a structured value changes no attribute.
C4_ReflectPrimitives ==
  [][\A n \in propNames, v \in Values, f1, f2 \in BOOLEAN :
       (conn = "Rendered" /\ vdom.present /\ SetProp(n, v, f1, f2)
          /\ ~last'.threw) =>
         IF v.t = "object" THEN attrs' = attrs
         ELSE /\ n \in DOMAIN attrs'
              /\ attrs'[n] = v.v
              /\ \A k \in DOMAIN attrs' \ {n} : k \in DOMAIN attrs /\ attrs'[k] = attrs[k]]_vars

C4_Witness ==
  /\ last.op = "set"
  /\ last.st = "Rendered"
  /\ NameBA \in DOMAIN attrs
  /\ attrs[NameBA] = "true"
  /\ vdom.present

\* C5: an attribute-change notification with null on a Rendered element
\* stores undefined, not null, under the name and its camelCase form; one
\* with the empty string stores the empty string.
C5_NullBecomesUndefined ==
  [][\A n \in propNames :
       /\ (vdom.present /\ RemoveAttribute(n, FALSE)) =>
            \A k \in {n, toCamelCase(n)} :
              k \in DOMAIN vdom'.props /\ vdom'.props[k] = Undefined
       /\ (vdom.present /\ SetAttribute(n, "", FALSE)) =>
            \A k \in {n, toCamelCase(n)} :
              k \in DOMAIN vdom'.props /\ vdom'.props[k] = Str("")]_vars

C5_Witness ==
  /\ last.op = "attr"
  /\ last.st = "Rendered"
  /\ NameBA \notin DOMAIN attrs
  /\ <<"b", "A">> \in DOMAIN vdom.props
  /\ vdom.props[<<"b", "A">>] = Undefined
  /\ vdom.props[NameBA] = Undefined

\* C6: reading a declared property never throws; it yields the value in the
\* stored tree's props when a tree is stored and the pending value otherwise.
C6_GetterTotal ==
  last.op = "get" =>
    /\ ~last.threw
    /\ \E n \in propNames :
         last.v = IF vdom.present THEN Lookup(vdom.props, n)
                  ELSE Lookup(props, n)

\* C7: before the first connect no operation calls the engine, a property
\* assignment only stores the value, and the connect makes one engine call
\* with every pending value in the tree.
C7_NoRenderBeforeConnect ==
  /\ (last.op \in {"construct", "set", "get", "attr"} /\ last.st = "Unattached") =>
       (last.calls = {} /\ ~vdom.present /\ root = Null_vdom)
  /\ (last.op = "connect" /\ last.st = "Unattached") =>
       /\ Cardinality(last.calls) = 1
       /\ \A n \in DOMAIN props : Lookup(vdom.props, n) = props[n]

\* C8: a render tree is stored exactly while the element is connected.
C8_TreeIffRendered == vdom.present <=> (conn = "Rendered")

\* C9: an attribute-change notification that finds no stored tree changes
\* nothing: no engine call, no error, same _vdom, _props and _root.
C9_PrematureAttrChangeNoop ==
  [][\A n \in propNames, s \in AttrStrings, f \in BOOLEAN :
       (~vdom.present /\ (SetAttribute(n, s, f) \/ RemoveAttribute(n, f))) =>
         /\ vdom' = vdom
         /\ props' = props
         /\ root' = root
         /\ last'.calls = {}
         /\ ~last'.threw /\ ~last'.failed]_vars

C9_Witness ==
  /\ last.op = "attr"
  /\ last.st = "TornDown"
  /\ ~vdom.present
  /\ impl = 1

\* C10: after an operation in which an engine call threw, the stored tree is
\* the tree of the last render that succeeded.
C10_FailedRenderKeepsTree == last.failed => vdom = root

\* the first given of propNames, observedAttributes, keys of propTypes
DeclaredNames(in) ==
  IF in.propNames.given THEN in.propNames
  ELSE IF in.observedAttributes.given THEN in.observedAttributes
  ELSE in.propTypes

\* C11: the names are the propNames argument, else observedAttributes, else
\* the keys of propTypes; when one of them is given, registering and
\* constructing do not throw, the class observes exactly these names and the
\* instance gets one accessor pair for each.
C11_PropNamesResolved ==
  DeclaredNames(reg.in).given =>
    /\ reg.phase # "idle" =>
         /\ ~reg.out.threw
         /\ reg.out.observed = DeclaredNames(reg.in)
    /\ reg.phase = "constructed" =>
         /\ ~reg.made.threw
         /\ reg.made.accessors = DeclaredNames(reg.in).v

C12_SlotRouting ==
  dom.phase = "done" =>
    LET cn  == dom.node.childNodes
        arr == dom.out.children.children
    IN \A i \in 1..Len(cn) :
         IF cn[i].slot # <<>>
         THEN /\ cn[i].slot \in DOMAIN dom.out.props
              /\ dom.out.props[cn[i].slot] =
                   SlotVnode(cn[i].slot, toVdomNode(cn[i], ""))
              /\ i <= Len(arr) => arr[i] = Hole
         ELSE /\ i <= Len(arr)
              /\ arr[i] = toVdomNode(cn[i], "")

\* C20: toVdom loses nothing: the projection of every child is in the
\* result, among the children or under its slot name, and every attribute
\* but `slot` reads its value under its literal name.
C20_NothingLost ==
  dom.phase = "done" =>
    LET cn  == dom.node.childNodes
        arr == dom.out.children.children
        a   == dom.node.attributes
    IN /\ \A i \in 1..Len(cn) :
            \/ i <= Len(arr) /\ arr[i] = toVdomNode(cn[i], "")
            \/ /\ cn[i].slot \in DOMAIN dom.out.props
               /\ dom.out.props[cn[i].slot] =
                    SlotVnode(cn[i].slot, toVdomNode(cn[i], ""))
       /\ \A n \in DOMAIN a \ {SlotAttr} :
            n \in DOMAIN dom.out.props /\ dom.out.props[n] = Str(a[n])

\* C14: the engine's hydrate entry point is called only by the first connect
\* of an element, and only when the element has the `hydrate` attribute then;
\* every other engine call is a render.
C14_HydrateOnlyFirstConnect ==
  \A c \in last.calls :
    c.fn = "hydrate" =>
      /\ c.by = "connect"
      /\ last.st = "Unattached"
      /\ Hydrate \in DOMAIN attrs

\* C15: while the ancestor is mounted the slot node carries the Slot's
\* `_preact` listener, whatever re-renders the ancestor went through.
C15_ListenerWhileMounted == anc.mounted => slot.nodeListener # None

\* C18: after a connect the pending props hold no value any more.
C18_PendingCleared == last.op = "connect" => props = EmptyMap

\* C19: on a Rendered element, once element.n = v has returned (the
\* notification of the mirrored setAttribute included), element.n reads v,
\* undefined for null, for every declared n and every v.
C19_SetGetRoundTrip ==
  [][\A n \in propNames, v \in Values :
       (conn = "Rendered" /\ vdom.present /\ SetProp(n, v, FALSE, FALSE)) =>
         /\ ~getter(impl, vdom', props', n).threw
         /\ getter(impl, vdom', props', n).v = NormalizeNull(v)]_vars

\* C17: an attribute change for n on a Rendered element changes only the
\* keys n and camelCase(n) of the stored tree's props; every other key, the
\* context and the children keep their values.
C17_AttrChangeFrame ==
  [][\A n \in propNames :
       (/\ conn = "Rendered"
        /\ vdom.present
        /\ (SetAttribute(n, "y", FALSE) \/ RemoveAttribute(n, FALSE))) =>
         /\ DOMAIN vdom'.props = DOMAIN vdom.props \cup {n, toCamelCase(n)}
         /\ \A k \in DOMAIN vdom.props \ {n, toCamelCase(n)} :
              vdom'.props[k] = vdom.props[k]
         /\ vdom'.context = vdom.context
         /\ vdom'.children = vdom.children]_vars

C17_Witness ==
  /\ last.op = "attr"
  /\ last.st = "Rendered"
  /\ vdom.present
  /\ NameBA \in DOMAIN vdom.props
  /\ vdom.props[NameBA] = Obj("o1")
  /\ NameA \in DOMAIN vdom.props
  /\ vdom.props[NameA] = Str("y")
  /\ vdom.context = "c1"
  /\ vdom.children.props # EmptyMap

\* C16: an element that connects under two mounted ancestors gets the
\* ambient context of the near one, and the near ancestor's listener is the
\* only one that wrote into the event.
C16_NearestHandles ==
  (last.op = "connect" /\ place = "inAnc" /\ anc.mounted /\ outer.mounted) =>
    /\ vdom.context = anc.ambient
    /\ outer.wrote = {"near"}

====
